---------------------------- MODULE Spec2Model ----------------------------
(***************************************************************************)
(* Model of app_vendedores.py, a Streamlit script that is re-run from top  *)
(* to bottom on every interaction.  The script is modelled stage by stage: *)
(*   - load_df and the df.empty halt            (lines 19-30)  SpecLoad    *)
(*   - guess                                    (lines 34-45)  SpecGuess   *)
(*   - selectboxes, rename, coercion, missing   (lines 47-70)  SpecMap     *)
(*   - filter options, mask, df_f               (lines 73-88)  SpecFilter  *)
(*   - agg                                      (lines 109-116) SpecAgg    *)
(* Each specification draws the input of its stage from a bounded set and  *)
(* holds the variables of the other stages at a fixed idle value.          *)
(***************************************************************************)
EXTENDS Integers, Sequences, FiniteSets

VARIABLES
    pc,         \* position of the script: which stage has last completed
    fs,         \* content of vendedores.xlsx on disk, or NoFile
    up,         \* the file uploader's value: None or an uploaded workbook
    cache,      \* st.cache_data's memo of load_df: argument -> returned table
    loaded,     \* the table load_df returned in the last run
    outcome,    \* how the last run of the stage ended
    columns,    \* df.columns of the loaded table (raw header)
    keys,       \* the keyword list passed to guess in the last call
    guessed,    \* the value guess returned in the last call
    sel,        \* the sidebar mapping widgets: c_region .. c_fecha, use_fecha
    renamed,    \* df.columns after df.rename (line 56)
    missing,    \* the list `missing` of line 67, as a set
    df,         \* the mapped table entering the filter stage
    reg_sel,    \* value of the "Región" selectbox
    vend_sel,   \* value of the "Vendedor" selectbox
    reg_opts,   \* options offered by the "Región" selectbox in the last run
    vend_opts,  \* options offered by the "Vendedor" selectbox in the last run
    df_f,       \* the filtered table (line 88)
    df_ff,      \* the row filter applied once more to df_f
    by,         \* the grouping column passed to agg
    g,          \* the frame agg returned
    divided     \* whether agg took the division branch of line 115

vars == <<pc, fs, up, cache, loaded, outcome, columns, keys, guessed, sel,
          renamed, missing, df, reg_sel, vend_sel, reg_opts, vend_opts,
          df_f, df_ff, by, g, divided>>

loadVars   == <<fs, up, cache, loaded>>
mapVars    == <<columns, keys, guessed, sel, renamed, missing>>
filterVars == <<df, reg_sel, vend_sel, reg_opts, vend_opts, df_f, df_ff>>
aggVars    == <<by, g, divided>>

\* Bounds of the model.
MaxTables == 2      \* distinct non-empty workbook contents
MaxCols   == 3      \* columns of a raw header
MaxRows   == 3      \* rows of a table

Idle == "idle"
None == "None"

RECURSIVE SumSeq(_)
SumSeq(s) == IF s = <<>> THEN 0 ELSE Head(s) + SumSeq(Tail(s))

Range(s) == {s[i] : i \in DOMAIN s}

(***************************************************************************)
(* Table Loader: load_df under @st.cache_data, and the df.empty halt.      *)
(* A workbook's table is abstracted to its identity: "empty" is a sheet    *)
(* with no rows (.empty is True for it as for pd.DataFrame()), the others  *)
(* are distinct non-empty contents.                                        *)
(***************************************************************************)
NoFile     == "NoFile"
EmptyTable == "empty"
TableIds   == <<"t1", "t2", "t3", "t4">>
Tables     == {EmptyTable} \cup {TableIds[i] : i \in 1..MaxTables}
NoCache    == [k \in {} |-> EmptyTable]

\* os.path.exists("vendedores.xlsx")
DefaultExists == fs # NoFile

\* The body of load_df, run on a cache miss.
LoadBody(uploaded_file) ==
    IF uploaded_file # None THEN uploaded_file
    ELSE IF DefaultExists THEN fs
    ELSE EmptyTable

\* @st.cache_data: the memo is keyed by the argument alone.
CacheLookup(uploaded_file) ==
    IF uploaded_file \in DOMAIN cache THEN cache[uploaded_file]
    ELSE LoadBody(uploaded_file)

CacheStore(uploaded_file, t) ==
    [k \in DOMAIN cache \cup {uploaded_file} |->
        IF k = uploaded_file THEN t ELSE cache[k]]

\* One run of lines 27-30: df = load_df(up); if df.empty: st.info; st.stop
RunLoad ==
    LET t == CacheLookup(up) IN
    /\ loaded'  = t
    /\ cache'   = CacheStore(up, t)
    /\ outcome' = IF t = EmptyTable THEN "info_halt" ELSE "continue"
    /\ pc'      = "loaded"
    /\ UNCHANGED <<fs, up>>
    /\ UNCHANGED <<mapVars, filterVars, aggVars>>

\* The environment: vendedores.xlsx is written, replaced or removed.
PlaceDefaultFile ==
    \E t \in Tables :
        /\ fs # t
        /\ fs' = t
        /\ UNCHANGED <<pc, up, cache, loaded, outcome>>
        /\ UNCHANGED <<mapVars, filterVars, aggVars>>

RemoveDefaultFile ==
    /\ fs # NoFile
    /\ fs' = NoFile
    /\ UNCHANGED <<pc, up, cache, loaded, outcome>>
    /\ UNCHANGED <<mapVars, filterVars, aggVars>>

\* The user uploads a workbook in the sidebar, or clears the uploader.
Upload ==
    \E t \in Tables :
        /\ up # t
        /\ up' = t
        /\ UNCHANGED <<pc, fs, cache, loaded, outcome>>
        /\ UNCHANGED <<mapVars, filterVars, aggVars>>

ClearUpload ==
    /\ up # None
    /\ up' = None
    /\ UNCHANGED <<pc, fs, cache, loaded, outcome>>
    /\ UNCHANGED <<mapVars, filterVars, aggVars>>

IdleMap    == /\ columns = <<>> /\ keys = <<>> /\ guessed = [isStr |-> FALSE, chars |-> <<>>]
              /\ sel = Idle /\ renamed = <<>> /\ missing = {}
IdleFilter == /\ df = <<>> /\ reg_sel = Idle /\ vend_sel = Idle
              /\ reg_opts = <<>> /\ vend_opts = <<>>
              /\ df_f = <<>> /\ df_ff = <<>>
IdleAgg    == /\ by = Idle /\ g = <<>> /\ divided = FALSE
IdleLoad   == /\ fs = NoFile /\ up = None /\ cache = NoCache /\ loaded = EmptyTable

InitLoad ==
    /\ pc = "start"
    /\ fs \in {NoFile} \cup Tables
    /\ up = None
    /\ cache = NoCache
    /\ loaded = EmptyTable
    /\ outcome = "none"
    /\ IdleMap /\ IdleFilter /\ IdleAgg

NextLoad ==
    \/ RunLoad
    \/ PlaceDefaultFile
    \/ RemoveDefaultFile
    \/ Upload
    \/ ClearUpload

SpecLoad == InitLoad /\ [][NextLoad]_vars

\* C4: in every run with no upload, load returns the default file's table when
\* vendedores.xlsx exists at that moment, and otherwise returns the empty
\* table and halts with the informational message; a result memoized earlier
\* for "no upload" never hides an existing default file.
C4_LoadFollowsDefaultFile ==
    [][ (RunLoad /\ up = None) =>
            /\ (DefaultExists => loaded' = fs)
            /\ (~DefaultExists => (loaded' = EmptyTable /\ outcome' = "info_halt")) ]_vars


(***************************************************************************)
(* Column names.  A column label is a Python object: a str, modelled by    *)
(* its characters, or a non-str label such as the integer 1.  Python's     *)
(* None is a non-str label with no text.                                   *)
(***************************************************************************)
StrName(cs)  == [isStr |-> TRUE,  chars |-> cs]
NonStrName(cs) == [isStr |-> FALSE, chars |-> cs]
NoneCol == NonStrName(<<>>)

UpperChars == <<"A","B","C","D","E","F","G","H","I","J","K","L","M",
                "N","O","P","Q","R","S","T","U","V","W","X","Y","Z","Ó">>
LowerChars == <<"a","b","c","d","e","f","g","h","i","j","k","l","m",
                "n","o","p","q","r","s","t","u","v","w","x","y","z","ó">>
Whitespace == {" ", "\t"}

\* str.lower(), character by character
LowerChar(ch) ==
    IF \E i \in DOMAIN UpperChars : UpperChars[i] = ch
    THEN LowerChars[CHOOSE i \in DOMAIN UpperChars : UpperChars[i] = ch]
    ELSE ch

Lower(cs) == [i \in DOMAIN cs |-> LowerChar(cs[i])]

\* str.strip(): leading and trailing whitespace removed
RECURSIVE LStrip(_)
LStrip(cs) ==
    IF cs # <<>> /\ Head(cs) \in Whitespace THEN LStrip(Tail(cs)) ELSE cs

RECURSIVE RStrip(_)
RStrip(cs) ==
    IF cs # <<>> /\ cs[Len(cs)] \in Whitespace
    THEN RStrip(SubSeq(cs, 1, Len(cs) - 1)) ELSE cs

Strip(cs) == RStrip(LStrip(cs))

\* c.lower().strip(), the key of `lookup`
Norm(c) == Strip(Lower(c.chars))

\* The keyword lists of lines 41-45.
RegionKeys ==
    << <<"r", "e", "g", "i", "ó", "n">>,
       <<"r", "e", "g", "i", "o", "n">>,
       <<"z", "o", "n", "a">>,
       <<"a", "r", "e", "a">> >>

VendedorKeys ==
    << <<"v", "e", "n", "d", "e", "d", "o", "r">>,
       <<"e", "j", "e", "c", "u", "t", "i", "v", "o">>,
       <<"a", "s", "e", "s", "o", "r">>,
       <<"s", "a", "l", "e", "s", "p", "e", "r", "s", "o", "n">>,
       <<"n", "o", "m", "b", "r", "e">>,
       <<"n", "o", "m", "b", "r", "e", " ", "v", "e", "n", "d", "e", "d", "o", "r">>,
       <<"v", "e", "n", "d", "e", "d", "o", "r", "e", "s">> >>

UnidKeys ==
    << <<"u", "n", "i", "d", "a", "d", "e", "s", " ", "v", "e", "n", "d", "i", "d", "a", "s">>,
       <<"u", "n", "i", "d", "a", "d", "e", "s">>,
       <<"q", "t", "y">>,
       <<"c", "a", "n", "t", "i", "d", "a", "d">> >>

VentasKeys ==
    << <<"v", "e", "n", "t", "a", "s", " ", "t", "o", "t", "a", "l", "e", "s">>,
       <<"v", "e", "n", "t", "a", "s">>,
       <<"m", "o", "n", "t", "o">>,
       <<"s", "a", "l", "e", "s">>,
       <<"i", "m", "p", "o", "r", "t", "e">> >>

FechaKeys ==
    << <<"f", "e", "c", "h", "a">>,
       <<"d", "a", "t", "e">> >>


\* Raw headers are drawn from these labels.
ColZona == StrName(<<"Z", "o", "n", "a">>)

ColZonaPadded == StrName(<<"z", "o", "n", "a", " ">>)

ColRegion == StrName(<<"R", "e", "g", "i", "o", "n">>)

ColNombre == StrName(<<"N", "o", "m", "b", "r", "e">>)

ColUnidades == StrName(<<"U", "n", "i", "d", "a", "d", "e", "s">>)

ColMonto == StrName(<<"M", "o", "n", "t", "o">>)

ColFecha == StrName(<<"F", "e", "c", "h", "a">>)


ColVentas == StrName(<<"v", "e", "n", "t", "a", "s">>)
ColOne    == NonStrName(<<"1">>)

ColPool == {ColZona, ColZonaPadded, ColRegion, ColNombre, ColUnidades,
            ColMonto, ColVentas, ColFecha, ColOne}

\* pd.read_excel yields pairwise distinct labels, and a frame that passed the
\* df.empty halt has at least one column.
Headers ==
    UNION { {h \in [1..n -> ColPool] :
                \A i, j \in 1..n : i # j => h[i] # h[j]} : n \in 1..MaxCols }

\* cols = [c for c in df.columns if isinstance(c, str)]
Cols(header) == SelectSeq(header, LAMBDA c : c.isStr)

\* lookup = {c.lower().strip(): c for c in cols}: a later column overwrites
\* an earlier one with the same key.
LookupHas(cs, k) == \E i \in DOMAIN cs : Norm(cs[i]) = k
LookupGet(cs, k) ==
    cs[CHOOSE i \in DOMAIN cs :
          /\ Norm(cs[i]) = k
          /\ \A j \in DOMAIN cs : Norm(cs[j]) = k => j <= i]

\* A guess that scans the columns first and the keywords second.
RECURSIVE GuessByColumn(_, _)
GuessByColumn(cs, ks) ==
    IF cs = <<>> THEN NoneCol
    ELSE IF \E i \in DOMAIN ks : ks[i] = Norm(Head(cs)) THEN Head(cs)
    ELSE GuessByColumn(Tail(cs), ks)

\* def guess(keys): for k in keys: if k in lookup: return lookup[k]
RECURSIVE guess(_, _)
guess(cs, ks) ==
    IF ks = <<>> THEN NoneCol
    ELSE IF LookupHas(cs, Head(ks)) THEN LookupGet(cs, Head(ks))
    ELSE guess(cs, Tail(ks))

KeywordLists == {RegionKeys, VendedorKeys, UnidKeys, VentasKeys, FechaKeys}

g_region(header)   == guess(Cols(header), RegionKeys)
g_vendedor(header) == guess(Cols(header), VendedorKeys)
g_unid(header)     == guess(Cols(header), UnidKeys)
g_ventas(header)   == guess(Cols(header), VentasKeys)
g_fecha(header)    == guess(Cols(header), FechaKeys)

\* One call of guess on the loaded header (lines 41-45).
CallGuess ==
    \E ks \in KeywordLists :
        /\ keys'    = ks
        /\ guessed' = guess(Cols(columns), ks)
        /\ pc'      = "guessed"
        /\ UNCHANGED <<columns, sel, renamed, missing, outcome>>
        /\ UNCHANGED <<loadVars, filterVars, aggVars>>

InitGuess ==
    /\ pc = "loaded"
    /\ columns \in Headers
    /\ keys = <<>> /\ guessed = NoneCol
    /\ sel = Idle /\ renamed = <<>> /\ missing = {}
    /\ outcome = "none"
    /\ IdleLoad /\ IdleFilter /\ IdleAgg

NextGuess == CallGuess

SpecGuess == InitGuess /\ [][NextGuess]_vars

\* The positions of the keywords that some string-named column matches.
MatchedKeys ==
    {i \in DOMAIN keys :
        \E j \in DOMAIN columns :
            columns[j].isStr /\ Norm(columns[j]) = keys[i]}

FirstMatched == CHOOSE i \in MatchedKeys : \A j \in MatchedKeys : i <= j

\* C8: guess returns a string-named raw column whose lower-cased, trimmed
\* name equals the earliest keyword of the list that any string-named column
\* matches, and None when no string-named column matches any keyword.
C8_GuessEarliestKeyword ==
    pc = "guessed" =>
        IF MatchedKeys = {} THEN guessed = NoneCol
        ELSE /\ \E j \in DOMAIN columns : columns[j] = guessed
             /\ guessed.isStr
             /\ Norm(guessed) = keys[FirstMatched]

\* C8 witness: two columns match different keywords of the list, the column
\* that comes first in the header matches the later keyword, and guess has
\* returned the other one.
C8_Witness ==
    /\ pc = "guessed"
    /\ Len(columns) >= 2
    /\ columns[1] = ColZona
    /\ columns[2] = ColRegion
    /\ keys = RegionKeys
    /\ guessed = ColRegion


(***************************************************************************)
(* Column Mapper: the sidebar selectboxes (47-52), rename_map and          *)
(* df.rename (54-56), the coercions (58-61), the missing-column check      *)
(* (66-70) and the first reads of the filter stage (75, 79).               *)
(***************************************************************************)
NameRegion   == StrName(<<"r", "e", "g", "i", "o", "n">>)
NameVendedor == StrName(<<"v", "e", "n", "d", "e", "d", "o", "r">>)
NameUnidades == StrName(<<"u", "n", "i", "d", "a", "d", "e", "s">>)
NameVentas   == StrName(<<"v", "e", "n", "t", "a", "s">>)
NameFecha    == StrName(<<"f", "e", "c", "h", "a">>)

\* needed = {"region","vendedor","unidades","ventas"}
needed == {NameRegion, NameVendedor, NameUnidades, NameVentas}

\* st.selectbox(options=cols, index=(cols.index(g) if g in cols else 0)):
\* the option at the index, or None when there is no option.
DefaultOption(cs, gs) ==
    IF cs = <<>> THEN NoneCol
    ELSE IF \E i \in DOMAIN cs : cs[i] = gs
         THEN cs[CHOOSE i \in DOMAIN cs : cs[i] = gs /\ \A j \in 1..(i-1) : cs[j] # gs]
         ELSE cs[1]

\* bool(g_fecha)
Truthy(c) == c # NoneCol

\* The widgets' values in a session's first run: every default accepted.
DefaultSel(header) ==
    LET cs == Cols(header) IN
    [ c_region  |-> DefaultOption(cs, g_region(header)),
      c_vend    |-> DefaultOption(cs, g_vendedor(header)),
      c_unid    |-> DefaultOption(cs, g_unid(header)),
      c_ventas  |-> DefaultOption(cs, g_ventas(header)),
      use_fecha |-> Truthy(g_fecha(header)),
      c_fecha   |-> IF Truthy(g_fecha(header))
                    THEN DefaultOption(cs, g_fecha(header)) ELSE NoneCol ]

\* rename_map = {c_region:"region", c_vend:"vendedor", c_unid:"unidades",
\*               c_ventas:"ventas"}; if use_fecha and c_fecha: [c_fecha]="fecha"
\* The dict as its items in insertion order; a repeated key keeps the value
\* written last.
rename_map(s) ==
    << <<s.c_region, NameRegion>>, <<s.c_vend, NameVendedor>>,
       <<s.c_unid, NameUnidades>>, <<s.c_ventas, NameVentas>> >>
    \o (IF s.use_fecha /\ Truthy(s.c_fecha)
        THEN << <<s.c_fecha, NameFecha>> >> ELSE <<>>)

MapHas(m, c) == \E i \in DOMAIN m : m[i][1] = c
MapGet(m, c) ==
    m[CHOOSE i \in DOMAIN m :
         m[i][1] = c /\ \A j \in DOMAIN m : m[j][1] = c => j <= i][2]

\* df.rename(columns=rename_map): every label the map has is replaced, the
\* others are kept; nothing is dropped or de-duplicated.
Rename(header, m) ==
    [i \in DOMAIN header |->
        IF MapHas(m, header[i]) THEN MapGet(m, header[i]) ELSE header[i]]

Count(header, c) == Cardinality({i \in DOMAIN header : header[i] = c})

\* missing = [c for c in needed if c not in df.columns]
Missing(header) == {c \in needed : Count(header, c) = 0}

\* Lines 58-88 on the renamed header.  df[name] raises KeyError when no column
\* has the label and is a DataFrame when several have it: pd.to_numeric then
\* raises TypeError, pd.to_datetime ValueError, and .unique() AttributeError.
ScriptOutcome(header) ==
    IF Count(header, NameUnidades) = 0 THEN "KeyError"
    ELSE IF Count(header, NameUnidades) > 1 THEN "TypeError"
    ELSE IF Count(header, NameVentas) = 0 THEN "KeyError"
    ELSE IF Count(header, NameVentas) > 1 THEN "TypeError"
    ELSE IF Count(header, NameFecha) > 1 THEN "ValueError"
    ELSE IF Missing(header) # {} THEN "missing_error"
    ELSE IF Count(header, NameRegion) > 1 THEN "AttributeError"
    ELSE IF Count(header, NameVendedor) > 1 THEN "AttributeError"
    ELSE "filters"

\* One run of lines 54-88 with the widgets at s.
RunMapping(s) ==
    LET r == Rename(columns, rename_map(s)) IN
    /\ sel'     = s
    /\ renamed' = r
    /\ outcome' = ScriptOutcome(r)
    /\ missing' = IF ScriptOutcome(r) = "missing_error" THEN Missing(r) ELSE {}
    /\ pc'      = "mapped"
    /\ UNCHANGED <<columns, keys, guessed>>
    /\ UNCHANGED <<loadVars, filterVars, aggVars>>

\* The first run of a session: each widget shows its default.
FirstRun ==
    /\ pc = "loaded"
    /\ RunMapping(DefaultSel(columns))

\* The user picks another column in one of the four selectboxes; the script
\* runs again.
ChangeRegion ==
    /\ pc = "mapped"
    /\ \E c \in Range(Cols(columns)) :
        c # sel.c_region /\ RunMapping([sel EXCEPT !.c_region = c])

ChangeVend ==
    /\ pc = "mapped"
    /\ \E c \in Range(Cols(columns)) :
        c # sel.c_vend /\ RunMapping([sel EXCEPT !.c_vend = c])

ChangeUnid ==
    /\ pc = "mapped"
    /\ \E c \in Range(Cols(columns)) :
        c # sel.c_unid /\ RunMapping([sel EXCEPT !.c_unid = c])

ChangeVentas ==
    /\ pc = "mapped"
    /\ \E c \in Range(Cols(columns)) :
        c # sel.c_ventas /\ RunMapping([sel EXCEPT !.c_ventas = c])

\* The "Mi archivo tiene Fecha" checkbox: ticking it shows the date selectbox
\* at its default, unticking it sets c_fecha to None.
ToggleFecha ==
    /\ pc = "mapped"
    /\ RunMapping([sel EXCEPT
          !.use_fecha = ~sel.use_fecha,
          !.c_fecha   = IF sel.use_fecha THEN NoneCol
                        ELSE DefaultOption(Cols(columns), g_fecha(columns))])

ChangeFecha ==
    /\ pc = "mapped"
    /\ sel.use_fecha
    /\ \E c \in Range(Cols(columns)) :
        c # sel.c_fecha /\ RunMapping([sel EXCEPT !.c_fecha = c])

InitMap ==
    /\ pc = "loaded"
    /\ columns \in Headers
    /\ keys = <<>> /\ guessed = NoneCol
    /\ sel = Idle /\ renamed = <<>> /\ missing = {}
    /\ outcome = "none"
    /\ IdleLoad /\ IdleFilter /\ IdleAgg

NextMap ==
    \/ FirstRun
    \/ ChangeRegion
    \/ ChangeVend
    \/ ChangeUnid
    \/ ChangeVentas
    \/ ToggleFecha
    \/ ChangeFecha

SpecMap == InitMap /\ [][NextMap]_vars

\* The canonical columns absent right after the rename of line 56.
Absent == {c \in needed : \A i \in DOMAIN renamed : renamed[i] # c}

\* C1: whenever a required canonical column is absent after the rename, the
\* run ends in the missing-required-columns error naming exactly the absent
\* columns, never in an unhandled fault and never in the filter stage.
C1_AbsentColumnsReported ==
    (pc = "mapped" /\ Absent # {}) =>
        (outcome = "missing_error" /\ missing = Absent)

\* C2: for the header Zona, Nombre, Unidades with every default accepted, the
\* run halts with the missing-required-columns error and names ventas.
C2_ZonaNombreUnidadesNamesVentas ==
    (/\ pc = "mapped"
     /\ columns = <<ColZona, ColNombre, ColUnidades>>
     /\ sel = DefaultSel(columns)) =>
        (outcome = "missing_error" /\ missing = {NameVentas})

\* C3: after the rename the column names are pairwise distinct.
C3_RenamedNamesDistinct ==
    pc = "mapped" =>
        \A i, j \in DOMAIN renamed : i # j => renamed[i] # renamed[j]


(***************************************************************************)
(* Cells.  A cell is missing (NaN), an integer, a float with an integral   *)
(* value, or a string.  A row holds the four canonical columns.            *)
(***************************************************************************)
NaN         == [t |-> "nan",   n |-> 0, s |-> ""]
IntCell(k)  == [t |-> "int",   n |-> k, s |-> ""]
FloatCell(k) == [t |-> "float", n |-> k, s |-> ""]
StrCell(x)  == [t |-> "str",   n |-> 0, s |-> x]

Digits      == <<"0", "1", "2", "3", "4", "5", "6", "7", "8", "9">>
FloatDigits == <<"0.0", "1.0", "2.0", "3.0", "4.0", "5.0", "6.0", "7.0", "8.0", "9.0">>

\* Series.astype(str), cell by cell: str(nan) is "nan", str(1) is "1",
\* str(1.0) is "1.0".
AsStr(c) ==
    CASE c.t = "nan"   -> "nan"
      [] c.t = "int"   -> Digits[c.n + 1]
      [] c.t = "float" -> FloatDigits[c.n + 1]
      [] c.t = "str"   -> c.s

\* Series.dropna()
NotNa(c) == c.t # "nan"

\* The strings that occur, in the order sorted() gives them (code points).
StrOrder == <<"(Todas)", "(Todos)", "1", "1.0", "Ana", "Beto", "N", "S", "nan">>

\* sorted(set of str)
Sorted(S) == SelectSeq(StrOrder, LAMBDA x : x \in S)

Todas == "(Todas)"
Todos == "(Todos)"

\* df.loc[mask]: the rows whose mask entry is True, in order.
RECURSIVE Loc(_, _)
Loc(t, mask) ==
    IF t = <<>> THEN <<>>
    ELSE (IF Head(mask) THEN <<Head(t)>> ELSE <<>>) \o Loc(Tail(t), Tail(mask))

\* reg_opts = ["(Todas)"] + sorted(df["region"].dropna().astype(str).unique())
RegOpts(t) ==
    <<Todas>> \o Sorted({AsStr(t[i].region) : i \in {j \in DOMAIN t : NotNa(t[j].region)}})

\* An origen that ignores the region selectbox.
OrigenWhole(t, rs) == t

\* origen = df if reg_sel=="(Todas)" else df[df["region"].astype(str)==reg_sel]
Origen(t, rs) ==
    IF rs = Todas THEN t
    ELSE Loc(t, [i \in DOMAIN t |-> AsStr(t[i].region) = rs])

\* vend_opts = ["(Todos)"] + sorted(origen["vendedor"].dropna().astype(str).unique())
VendOpts(o) ==
    <<Todos>> \o Sorted({AsStr(o[i].vendedor) : i \in {j \in DOMAIN o : NotNa(o[j].vendedor)}})

\* A mask whose vendedor test reads the region column.
MaskWrongColumn(t, rs, vs) ==
    LET m0 == [i \in DOMAIN t |-> TRUE]
        m1 == IF rs # Todas
              THEN [i \in DOMAIN t |-> m0[i] /\ AsStr(t[i].region) = rs] ELSE m0
    IN  IF vs # Todos
        THEN [i \in DOMAIN t |-> m1[i] /\ AsStr(t[i].region) = vs] ELSE m1

\* A mask combined with |= instead of &=.
MaskOr(t, rs, vs) ==
    LET m0 == [i \in DOMAIN t |-> TRUE]
        m1 == IF rs # Todas
              THEN [i \in DOMAIN t |-> m0[i] \/ AsStr(t[i].region) = rs] ELSE m0
    IN  IF vs # Todos
        THEN [i \in DOMAIN t |-> m1[i] \/ AsStr(t[i].vendedor) = vs] ELSE m1

\* mask = pd.Series(True, index=df.index)
\* if reg_sel  != "(Todas)": mask &= df["region"].astype(str).eq(reg_sel)
\* if vend_sel != "(Todos)": mask &= df["vendedor"].astype(str).eq(vend_sel)
Mask(t, rs, vs) ==
    LET m0 == [i \in DOMAIN t |-> TRUE]
        m1 == IF rs # Todas
              THEN [i \in DOMAIN t |-> m0[i] /\ AsStr(t[i].region) = rs] ELSE m0
    IN  IF vs # Todos
        THEN [i \in DOMAIN t |-> m1[i] /\ AsStr(t[i].vendedor) = vs] ELSE m1

\* df_f = df.loc[mask].copy()
ApplyFilters(t, rs, vs) == Loc(t, Mask(t, rs, vs))

\* One run of lines 73-88 with the region selectbox at rs and the vendedor
\* selectbox last left at vs.  A selectbox whose option list differs from the
\* one it had in the previous run is a new widget and shows its first option.
RunFilters(rs, vs) ==
    LET vo == VendOpts(Origen(df, rs))
        v  == IF vo = vend_opts THEN vs ELSE Todos
    IN  /\ reg_opts'  = RegOpts(df)
        /\ reg_sel'   = rs
        /\ vend_opts' = vo
        /\ vend_sel'  = v
        /\ df_f'      = ApplyFilters(df, rs, v)
        /\ df_ff'     = <<>>
        /\ pc'        = "filtered"
        /\ UNCHANGED <<df, outcome>>
        /\ UNCHANGED <<loadVars, mapVars, aggVars>>

\* The first run: both selectboxes at index 0.
FirstFilterRun ==
    /\ pc = "mapped"
    /\ RunFilters(Todas, Todos)

\* The user picks an offered region.
ChooseRegion ==
    /\ pc \in {"filtered", "reapplied"}
    /\ \E r \in Range(reg_opts) : r # reg_sel /\ RunFilters(r, vend_sel)

\* The user picks an offered salesperson.
ChooseVendedor ==
    /\ pc \in {"filtered", "reapplied"}
    /\ \E v \in Range(vend_opts) : v # vend_sel /\ RunFilters(reg_sel, v)

\* if st.button("Limpiar filtros"): st.experimental_rerun()
\* The script runs again; the selectboxes keep their values.
ClearFilters ==
    /\ pc \in {"filtered", "reapplied"}
    /\ RunFilters(reg_sel, vend_sel)

\* The row filter applied to the filtered table with the same selection.
Reapply ==
    /\ pc = "filtered"
    /\ df_ff' = ApplyFilters(df_f, reg_sel, vend_sel)
    /\ pc'    = "reapplied"
    /\ UNCHANGED <<df, reg_sel, vend_sel, reg_opts, vend_opts, df_f, outcome>>
    /\ UNCHANGED <<loadVars, mapVars, aggVars>>

\* The tables of the filter stage.  A column read from a workbook that holds
\* no string is all integers or all floats and NaN; one that holds a string
\* keeps every cell as it is.
RegionCells   == {NaN, IntCell(1), FloatCell(1), StrCell("1"), StrCell("N")}
VendedorCells == {NaN, StrCell("Ana"), StrCell("Beto")}

FilterRows ==
    {[region |-> r, vendedor |-> v, unidades |-> IntCell(1), ventas |-> IntCell(1)] :
        r \in RegionCells, v \in VendedorCells}

DtypeOk(cells) ==
    \/ \E c \in cells : c.t = "str"
    \/ \A c \in cells : c.t = "int"
    \/ \A c \in cells : c.t \in {"float", "nan"}

\* A frame that passed the df.empty halt has at least one row.
FilterTables ==
    UNION { {t \in [1..n -> FilterRows] :
                DtypeOk({t[i].region : i \in 1..n})} : n \in 1..MaxRows }

InitFilter ==
    /\ pc = "mapped"
    /\ df \in FilterTables
    /\ reg_sel = Todas /\ vend_sel = Todos
    /\ reg_opts = <<>> /\ vend_opts = <<>>
    /\ df_f = <<>> /\ df_ff = <<>>
    /\ outcome = "filters"
    /\ IdleLoad /\ IdleMap /\ IdleAgg

NextFilter ==
    \/ FirstFilterRun
    \/ ChooseRegion
    \/ ChooseVendedor
    \/ ClearFilters
    \/ Reapply

SpecFilter == InitFilter /\ [][NextFilter]_vars

Ran == pc \in {"filtered", "reapplied"}

\* C7: with a region R chosen, every salesperson option other than "(Todos)"
\* is the string form of the vendedor of some row whose region stringifies
\* equal to R.
C7_VendOptsWithinRegion ==
    (Ran /\ reg_sel # Todas) =>
        \A k \in DOMAIN vend_opts :
            vend_opts[k] # Todos =>
                \E i \in DOMAIN df :
                    /\ AsStr(df[i].region) = reg_sel
                    /\ NotNa(df[i].vendedor)
                    /\ AsStr(df[i].vendedor) = vend_opts[k]

\* C7 witness: a region is chosen, the table holds a salesperson of another
\* region only, and the selectbox offers a salesperson.
C7_Witness ==
    /\ Ran /\ reg_sel # Todas
    /\ Len(vend_opts) >= 2
    /\ \E i \in DOMAIN df :
          /\ NotNa(df[i].vendedor)
          /\ \A k \in DOMAIN vend_opts : vend_opts[k] # AsStr(df[i].vendedor)

\* The rows the claim retains.
Retained(row, rs, vs) ==
    /\ (rs = Todas \/ AsStr(row.region) = rs)
    /\ (vs = Todos \/ AsStr(row.vendedor) = vs)

\* C9: the filter keeps exactly the rows whose region and vendedor stringify
\* equal to the choices (each test skipped for "no filter"), in order, and
\* applying it again to the filtered table returns the same rows in the same
\* order.
C9_FilterIdempotent ==
    pc = "reapplied" =>
        /\ df_f = SelectSeq(df, LAMBDA row : Retained(row, reg_sel, vend_sel))
        /\ df_ff = df_f

\* C9 witness: both filters are set, the filter dropped a row and kept a row,
\* and it has been applied again.
C9_Witness ==
    /\ pc = "reapplied"
    /\ reg_sel # Todas /\ vend_sel # Todos
    /\ Len(df_f) >= 1 /\ Len(df_f) < Len(df)

\* C10: for choices drawn from the offered options, the filtered table has at
\* least one row.
C10_FilteredNonEmpty ==
    Ran => Len(df_f) >= 1

\* C10 witness: a region and a salesperson are chosen, one row fails only the
\* salesperson test, another only the region test, and one row remains.
C10_Witness ==
    /\ pc = "filtered"
    /\ reg_sel # Todas /\ vend_sel # Todos
    /\ \E i \in DOMAIN df : AsStr(df[i].region) = reg_sel /\ AsStr(df[i].vendedor) # vend_sel
    /\ \E i \in DOMAIN df : AsStr(df[i].region) # reg_sel /\ AsStr(df[i].vendedor) = vend_sel
    /\ Len(df_f) = 1


(***************************************************************************)
(* Aggregator: agg(by), lines 109-116.  unidades and ventas are numeric    *)
(* after the coercion of lines 58-59: a number or NaN.  Amounts are        *)
(* integers; pct_ventas is held in hundredths of a percent, so that        *)
(* round(x, 2) is a rounding to an integer.                                *)
(***************************************************************************)
\* Series.sum(): NaN is skipped, the sum of nothing is 0.
NumOrZero(c) == IF NotNa(c) THEN c.n ELSE 0

\* The group label of a row, "nan" for a missing one.
KeyOf(row, col) == IF NotNa(row[col]) THEN row[col].s ELSE "nan"

\* The groups of groupby(by, dropna=False): missing labels form a group.
GroupKeysKeepNa(t, col) == Sorted({KeyOf(t[i], col) : i \in DOMAIN t})

\* The groups of groupby(by, dropna=True), in sorted order: the distinct
\* non-missing labels.
GroupKeys(t, col) ==
    Sorted({t[i][col].s : i \in {j \in DOMAIN t : NotNa(t[j][col])}})

\* ("unidades","sum") / ("ventas","sum") over the rows of one group
RECURSIVE GroupSum(_, _, _, _)
GroupSum(t, col, k, field) ==
    IF t = <<>> THEN 0
    ELSE (IF KeyOf(Head(t), col) = k THEN NumOrZero(Head(t)[field]) ELSE 0)
         + GroupSum(Tail(t), col, k, field)

\* df_f.groupby(by, dropna=True).agg(unidades=..., ventas=...).reset_index()
Grouped(t, col) ==
    LET ks == GroupKeys(t, col) IN
    [i \in DOMAIN ks |->
        [key      |-> ks[i],
         unidades |-> GroupSum(t, col, ks[i], "unidades"),
         ventas   |-> GroupSum(t, col, ks[i], "ventas")]]

\* A total taken over every row of the filtered table.
AggTotalAllRows(t, gr) == SumSeq([i \in DOMAIN t |-> NumOrZero(t[i].ventas)])

\* total = g["ventas"].sum()
AggTotal(t, gr) == SumSeq([i \in DOMAIN gr |-> gr[i].ventas])

\* round half to even of a / b, b # 0 (numpy's round)
RoundHalfEven(a, b) ==
    LET num == IF b < 0 THEN 0 - a ELSE a
        den == IF b < 0 THEN 0 - b ELSE b
        q   == num \div den
        r   == num - q * den
    IN  IF 2 * r < den THEN q
        ELSE IF 2 * r > den THEN q + 1
        ELSE IF q % 2 = 0 THEN q ELSE q + 1

\* g["pct_ventas"] = (g["ventas"]/total*100).round(2) if total else 0
agg(t, col) ==
    LET gr    == Grouped(t, col)
        total == AggTotal(t, gr)
    IN  [i \in DOMAIN gr |->
            [key        |-> gr[i].key,
             unidades   |-> gr[i].unidades,
             ventas     |-> gr[i].ventas,
             pct_ventas |-> IF total # 0
                            THEN RoundHalfEven(gr[i].ventas * 100 * 100, total)
                            ELSE 0]]

\* d = agg(by) in one of the three tabs, by chosen with the radio.
CallAgg ==
    \E b \in {"region", "vendedor"} :
        /\ by'      = b
        /\ g'       = agg(df_f, b)
        /\ divided' = (AggTotal(df_f, Grouped(df_f, b)) # 0)
        /\ pc'      = "aggregated"
        /\ UNCHANGED <<df, reg_sel, vend_sel, reg_opts, vend_opts, df_f, df_ff, outcome>>
        /\ UNCHANGED <<loadVars, mapVars>>

\* The filtered tables handed to agg.
AggRegionCells   == {NaN, StrCell("N"), StrCell("S")}
AggVendedorCells == {NaN, StrCell("Ana")}
AggAmounts ==
    { <<NaN, IntCell(1)>>, <<IntCell(3), NaN>>,
      <<IntCell(2), IntCell(0 - 1)>>, <<IntCell(1), IntCell(2)>> }

AggRows ==
    {[region |-> r, vendedor |-> v, unidades |-> a[1], ventas |-> a[2]] :
        r \in AggRegionCells, v \in AggVendedorCells, a \in AggAmounts}

AggTables == UNION { [1..n -> AggRows] : n \in 0..MaxRows }

InitAgg ==
    /\ pc = "filtered"
    /\ df_f \in AggTables
    /\ df = <<>> /\ reg_sel = Idle /\ vend_sel = Idle
    /\ reg_opts = <<>> /\ vend_opts = <<>> /\ df_ff = <<>>
    /\ by = Idle /\ g = <<>> /\ divided = FALSE
    /\ outcome = "filters"
    /\ IdleLoad /\ IdleMap

NextAgg == CallAgg

SpecAgg == InitAgg /\ [][NextAgg]_vars

\* The sum of a numeric column over the rows of T whose group label is not
\* missing, a missing amount counting as 0.
RECURSIVE RowsSum(_, _, _)
RowsSum(t, col, field) ==
    IF t = <<>> THEN 0
    ELSE (IF NotNa(Head(t)[col]) THEN NumOrZero(Head(t)[field]) ELSE 0)
         + RowsSum(Tail(t), col, field)

\* C5: the ventas of the aggregate rows sum to the ventas of the rows of T
\* whose group label is not missing, and likewise the unidades.
C5_AggPreservesSums ==
    pc = "aggregated" =>
        /\ SumSeq([i \in DOMAIN g |-> g[i].ventas])   = RowsSum(df_f, by, "ventas")
        /\ SumSeq([i \in DOMAIN g |-> g[i].unidades]) = RowsSum(df_f, by, "unidades")

\* C5 witness: agg has run on a table with a row whose group label is missing
\* and whose ventas is not 0, a row whose ventas is missing, and two groups.
C5_Witness ==
    /\ pc = "aggregated"
    /\ Len(g) = 2
    /\ \E i \in DOMAIN df_f : ~NotNa(df_f[i][by]) /\ NumOrZero(df_f[i].ventas) # 0
    /\ \E i \in DOMAIN df_f : NotNa(df_f[i][by]) /\ ~NotNa(df_f[i].ventas)

Abs(x) == IF x < 0 THEN 0 - x ELSE x

PctSum == SumSeq([i \in DOMAIN g |-> g[i].pct_ventas])

\* C6: when the ventas total over non-excluded rows is positive, the
\* pct_ventas of the aggregate rows sum to 100.00 within 0.005 per group; when
\* it is 0, every pct_ventas is 0 and no division is performed.
C6_PctSumsToHundred ==
    pc = "aggregated" =>
        LET total == RowsSum(df_f, by, "ventas") IN
        /\ total > 0 => 2 * Abs(PctSum - 100 * 100) <= Len(g)
        /\ total = 0 => (~divided /\ \A i \in DOMAIN g : g[i].pct_ventas = 0)

\* C6 witness: agg has run with a positive total, two groups whose shares are
\* not exact at two decimals, and an excluded row that carries ventas.
C6_Witness ==
    /\ pc = "aggregated"
    /\ RowsSum(df_f, by, "ventas") > 0
    /\ Len(g) = 2
    /\ g[1].pct_ventas * RowsSum(df_f, by, "ventas") # g[1].ventas * 100 * 100
    /\ \E i \in DOMAIN df_f : ~NotNa(df_f[i][by]) /\ NumOrZero(df_f[i].ventas) # 0

=============================================================================
